---- MODULE Spec2Model ----
(***************************************************************************)
(* Commission calculator front end: the input validation module            *)
(* (app/lib/validation.ts), the second copy of the validators kept in      *)
(* app/lib/api.ts, and the calls made on them (ValidationSpec); the page   *)
(* component (app/page.tsx) with its form, history, localStorage and the   *)
(* backend request of handleCalculate (Spec).                              *)
(*                                                                         *)
(* Text is a sequence of UTF-16 code units (the unit JavaScript's trim()   *)
(* and its regular expressions without the u flag work on).  A JavaScript  *)
(* number is a record [nan, val]: NaN is [nan |-> TRUE, val |-> 0], an     *)
(* integer i is [nan |-> FALSE, val |-> i].  A message is a TLA+ string.   *)
(***************************************************************************)
EXTENDS Integers, Sequences, FiniteSets, TLC

\* a call of a validator: its arguments, the validator, its completion
VARIABLES input, call, ret

\* the page: the build's API client, the form fields (the name, locks,
\* stocks and barrels states), the other React states, the handleCalculate
\* invocations waiting for the backend, localStorage, and (history) the ids
\* removed with handleDeleteEntry since the last clear
VARIABLES client, form, isLoading, entries, entryCount, inflight, storage,
          removed

validationVars == <<input, call, ret>>

pageVars ==
    <<client, form, isLoading, entries, entryCount, inflight, storage,
      removed>>

vars == <<validationVars, pageVars>>

(***************************************************************************)
(* Bounds of the model.                                                    *)
(***************************************************************************)
\* longest text handed to a validator
MaxLen == 3
\* how far around each range limit (and around zero) the numbers are drawn
Margin == 1
\* the entryCount up to which Calculate is clicked
MaxCount == 2

(***************************************************************************)
(* Code units.                                                             *)
(***************************************************************************)
\* the code units the regular expressions of the validators name
MINUS == 45
DIGIT0 == 48
DIGIT9 == 57
UPPER_A == 65
UPPER_Z == 90
LOWER_A == 97
LOWER_Z == 122
THAI_FIRST == 3584
THAI_LAST == 3711

\* The code units texts are built from: a member of every class the
\* validators tell apart, at the ends of its range, and code units just
\* outside the ranges.
\*   32 ' '   45 '-'   46 '.'   48 '0'   57 '9'   58 ':'   64 '@'   65 'A'
\*   91 '['   122 'z'   123 '{'   3583 before Thai   3584, 3711 Thai
\*   3712 past Thai
Alphabet ==
    { 32, 45, 46, 48, 57, 58, 64, 65, 91, 122, 123, 3583, 3584, 3711, 3712 }

\* the texts of n code units
Texts(n) == [1..n -> Alphabet]

\* the labels page.tsx passes as fieldName
Labels == { "Locks", "Stocks", "Barrels" }

(***************************************************************************)
(* JavaScript primitives used by the validators.                           *)
(***************************************************************************)
\* WhiteSpace and LineTerminator code units: what String.prototype.trim
\* strips and what \s matches.
WhiteSpace ==
    (9..13) \cup { 32, 160, 5760, 8232, 8233, 8239, 8287, 12288, 65279 }
            \cup (8192..8202)

IsWhiteSpace(c) == c \in WhiteSpace

\* \d without the u flag
Digits == DIGIT0..DIGIT9

\* a-zA-Z
LatinLetters == (LOWER_A..LOWER_Z) \cup (UPPER_A..UPPER_Z)

\* \u0E00-\u0E7F
ThaiBlock == THAI_FIRST..THAI_LAST

RECURSIVE trimStart(_)
trimStart(s) ==
    IF s # <<>> /\ IsWhiteSpace(Head(s)) THEN trimStart(Tail(s)) ELSE s

RECURSIVE trimEnd(_)
trimEnd(s) ==
    IF s # <<>> /\ IsWhiteSpace(s[Len(s)])
    THEN trimEnd(SubSeq(s, 1, Len(s) - 1))
    ELSE s

\* String.prototype.trim
trim(s) == trimEnd(trimStart(s))

\* The positions (1..Len+1) a matcher can stand at after `x?` when it stood
\* at one of the positions P before it.
AfterOptional(s, P, c) ==
    P \cup { p + 1 : p \in { q \in P : q <= Len(s) /\ s[q] = c } }

\* The positions a matcher can stand at after `[class]+`.
AfterPlus(s, P, class) ==
    { q \in 2..(Len(s) + 1) :
        \E p \in P : p < q /\ \A i \in p..(q - 1) : s[i] \in class }

\* `$` without the m flag: only the end of the input
AtEnd(s, P) == (Len(s) + 1) \in P

\* /^-?\d+$/.test(s)
IntegerRegexTest(s) ==
    AtEnd(s, AfterPlus(s, AfterOptional(s, {1}, MINUS), Digits))

\* /^[a-zA-Z\s]+$/.test(s)
EnglishOnlyRegexTest(s) ==
    AtEnd(s, AfterPlus(s, {1}, LatinLetters \cup WhiteSpace))

\* /^[a-zA-Z\u0E00-\u0E7F\s]+$/.test(s)
ThaiOrEnglishRegexTest(s) ==
    AtEnd(s, AfterPlus(s, {1}, LatinLetters \cup ThaiBlock \cup WhiteSpace))

NaN == [nan |-> TRUE, val |-> 0]

Num(i) == [nan |-> FALSE, val |-> i]

isNaN(x) == x.nan

\* x < y and x > y on numbers: every comparison with NaN is false
Less(x, y) == ~x.nan /\ ~y.nan /\ x.val < y.val

Greater(x, y) == ~x.nan /\ ~y.nan /\ x.val > y.val

(***************************************************************************)
(* app/lib/validation.ts                                                   *)
(***************************************************************************)
MSG_EMPTY_NAME == "Please enter Employee Name"
MSG_ENGLISH_ONLY == "Name is not valid, please enter in english."
MSG_THAI_OR_ENGLISH == "Name must be Thai or English letters only"
MSG_NOT_INTEGER == "Please enter with integer or whole number"
MSG_LOCKS == "Locks must be between 1 and 70"
MSG_STOCKS == "Stocks must be between 1 and 80"
MSG_BARRELS == "Barrels must be between 1 and 90"

MIN_QUANTITY == 1
MAX_LOCKS == 70
MAX_STOCKS == 80
MAX_BARRELS == 90

\* isInteger that forgets to trim
isInteger_untrimmed(value) == IntegerRegexTest(value)

isInteger(value) == IntegerRegexTest(trim(value))

\* validateName that tests the characters before the emptiness
validateName_regexFirst(name) ==
    IF ~EnglishOnlyRegexTest(name) THEN MSG_ENGLISH_ONLY
    ELSE IF trim(name) = <<>> THEN MSG_EMPTY_NAME
    ELSE ""

validateName(name) ==
    IF trim(name) = <<>> THEN MSG_EMPTY_NAME
    ELSE IF ~EnglishOnlyRegexTest(name) THEN MSG_ENGLISH_ONLY
    ELSE ""

\* validateNumericField without its emptiness test
validateNumericField_noEmptyTest(value, fieldName) ==
    IF ~isInteger(value) THEN MSG_NOT_INTEGER ELSE ""

validateNumericField(value, fieldName) ==
    IF trim(value) = <<>> THEN "Please enter " \o fieldName
    ELSE IF ~isInteger(value) THEN MSG_NOT_INTEGER
    ELSE ""

\* the range test with the upper limit excluded (x >= max)
outOfRange_exclusiveMax(x, max) ==
    isNaN(x) \/ Less(x, Num(MIN_QUANTITY)) \/ Greater(x, Num(max - 1))

\* the range test without isNaN
outOfRange_noNaNTest(x, max) ==
    Less(x, Num(MIN_QUANTITY)) \/ Greater(x, Num(max))

\* isNaN(x) || x < 1 || x > max: the condition of each of the three ifs
outOfRange(x, max) ==
    isNaN(x) \/ Less(x, Num(MIN_QUANTITY)) \/ Greater(x, Num(max))

\* validateInputRanges with `else if`: it stops at the first failure
validateInputRanges_elseIf(locks, stocks, barrels) ==
    IF outOfRange(locks, MAX_LOCKS) THEN << MSG_LOCKS >>
    ELSE IF outOfRange(stocks, MAX_STOCKS) THEN << MSG_STOCKS >>
    ELSE IF outOfRange(barrels, MAX_BARRELS) THEN << MSG_BARRELS >>
    ELSE <<>>

validateInputRanges(locks, stocks, barrels) ==
    LET e0 == <<>>
        e1 == IF outOfRange(locks, MAX_LOCKS) THEN Append(e0, MSG_LOCKS) ELSE e0
        e2 == IF outOfRange(stocks, MAX_STOCKS) THEN Append(e1, MSG_STOCKS) ELSE e1
        e3 == IF outOfRange(barrels, MAX_BARRELS) THEN Append(e2, MSG_BARRELS) ELSE e2
    IN  e3

(***************************************************************************)
(* The validators' second copy, app/lib/api.ts                             *)
(***************************************************************************)
\* the pattern without a-zA-Z
api_validateName_thaiOnly(name) ==
    IF trim(name) = <<>> THEN MSG_EMPTY_NAME
    ELSE IF ~AtEnd(name, AfterPlus(name, {1}, ThaiBlock \cup WhiteSpace))
         THEN MSG_THAI_OR_ENGLISH
    ELSE ""

api_validateName(name) ==
    IF trim(name) = <<>> THEN MSG_EMPTY_NAME
    ELSE IF ~ThaiOrEnglishRegexTest(name) THEN MSG_THAI_OR_ENGLISH
    ELSE ""

(***************************************************************************)
(* Calls.  A call ends in a completion: the value returned, or the value   *)
(* thrown.  No statement or primitive of the validators throws on a string *)
(* or a number, so every call completes normally.                          *)
(***************************************************************************)
NormalCompletion(v) == [type |-> "normal", value |-> v]

ThrowCompletion(v) == [type |-> "throw", value |-> v]

\* the numbers handed to validateInputRanges: NaN, and the integers within
\* Margin of zero and of each limit
Quantities ==
    { NaN } \cup
    { Num(i) : i \in UNION { (b - Margin)..(b + Margin) :
                    b \in { 0, MIN_QUANTITY, MAX_LOCKS, MAX_STOCKS, MAX_BARRELS } } }

\* Before the call the caller holds the arguments: a text, a text with the
\* label of its field, or three numbers.
ValidationInit ==
    /\ \/ \E n \in 0..MaxLen : \E t \in Texts(n) :
             input = [kind |-> "text", text |-> t]
       \/ \E n \in 0..MaxLen : \E t \in Texts(n) : \E l \in Labels :
             input = [kind |-> "field", text |-> t, fieldName |-> l]
       \/ \E l \in Quantities, s \in Quantities, b \in Quantities :
             input = [kind |-> "numbers", locks |-> l, stocks |-> s, barrels |-> b]
    /\ call = "none"
    /\ ret = NormalCompletion("")
    /\ client = "fetch"
    /\ form = [name |-> <<>>, locks |-> <<>>, stocks |-> <<>>, barrels |-> <<>>]
    /\ isLoading = FALSE
    /\ entries = <<>>
    /\ entryCount = [nan |-> FALSE, val |-> 0]
    /\ inflight = <<>>
    /\ storage = [commissionEntries |-> [present |-> FALSE],
                  commissionEntryCount |-> [present |-> FALSE]]
    /\ removed = {}

Call_isInteger ==
    /\ input.kind = "text"
    /\ call' = "isInteger"
    /\ ret' = NormalCompletion(isInteger(input.text))
    /\ UNCHANGED <<input, pageVars>>

Call_validateName ==
    /\ input.kind = "text"
    /\ call' = "validateName"
    /\ ret' = NormalCompletion(validateName(input.text))
    /\ UNCHANGED <<input, pageVars>>

\* a validateNumericField that throws its message instead of returning it
Call_validateNumericField_throws ==
    /\ input.kind = "field"
    /\ call' = "validateNumericField"
    /\ ret' = LET r == validateNumericField(input.text, input.fieldName)
              IN  IF r = "" THEN NormalCompletion(r) ELSE ThrowCompletion(r)
    /\ UNCHANGED <<input, pageVars>>

Call_validateNumericField ==
    /\ input.kind = "field"
    /\ call' = "validateNumericField"
    /\ ret' = NormalCompletion(validateNumericField(input.text, input.fieldName))
    /\ UNCHANGED <<input, pageVars>>

Call_validateInputRanges ==
    /\ input.kind = "numbers"
    /\ call' = "validateInputRanges"
    /\ ret' = NormalCompletion(
                 validateInputRanges(input.locks, input.stocks, input.barrels))
    /\ UNCHANGED <<input, pageVars>>

Call_api_validateName ==
    /\ input.kind = "text"
    /\ call' = "api_validateName"
    /\ ret' = NormalCompletion(api_validateName(input.text))
    /\ UNCHANGED <<input, pageVars>>

ValidationNext ==
    \/ Call_isInteger
    \/ Call_validateName
    \/ Call_validateNumericField
    \/ Call_validateInputRanges
    \/ Call_api_validateName

ValidationSpec == ValidationInit /\ [][ValidationNext]_vars

(***************************************************************************)
(* JavaScript primitives used by the page (app/page.tsx).                  *)
(***************************************************************************)
\* the leading decimal digits of s
RECURSIVE digitPrefix(_)
digitPrefix(s) ==
    IF s # <<>> /\ Head(s) \in Digits
    THEN << Head(s) >> \o digitPrefix(Tail(s))
    ELSE <<>>

\* the number a sequence of decimal digits denotes
RECURSIVE decimalValue(_)
decimalValue(d) ==
    IF d = <<>> THEN 0
    ELSE 10 * decimalValue(SubSeq(d, 1, Len(d) - 1)) + (d[Len(d)] - DIGIT0)

\* parseInt(text) without a radix: leading whitespace is skipped, a sign is
\* read, then the longest run of digits; NaN when there is no digit.  (The
\* texts of this model hold no 'x', so the 0x prefix does not arise.)
parseInt(text) ==
    LET t == trimStart(text)
        signed == t # <<>> /\ Head(t) \in { MINUS, 43 }
        negative == t # <<>> /\ Head(t) = MINUS
        d == digitPrefix(IF signed THEN Tail(t) ELSE t)
    IN  IF d = <<>> THEN NaN
        ELSE Num(IF negative THEN 0 - decimalValue(d) ELSE decimalValue(d))

\* x || 0 on a number: NaN and 0 are falsy
OrZero(x) == IF x.nan \/ x.val = 0 THEN Num(0) ELSE x

\* x + 1
PlusOne(x) == IF x.nan THEN NaN ELSE Num(x.val + 1)

\* the decimal digits of a natural number
RECURSIVE decimalDigits(_)
decimalDigits(n) ==
    IF n < 10 THEN << DIGIT0 + n >>
    ELSE decimalDigits(n \div 10) \o << DIGIT0 + (n % 10) >>

\* Number.prototype.toString on NaN and on integers
numberToString(x) ==
    IF x.nan THEN << 78, 97, 78 >>
    ELSE IF x.val < 0 THEN << MINUS >> \o decimalDigits(0 - x.val)
    ELSE decimalDigits(x.val)

\* what JSON.parse gives for null
JSONNull == [null |-> TRUE]

\* the JSON text "null"
JSON_NULL_TEXT == << 110, 117, 108, 108 >>

\* JSON.stringify of a number: NaN becomes null
jsonNumber(x) == IF x.nan THEN JSON_NULL_TEXT ELSE numberToString(x)

\* JSON.parse of the text of a number or of null
jsonParseNumber(t) ==
    IF t = JSON_NULL_TEXT THEN JSONNull
    ELSE IF Head(t) = MINUS THEN Num(0 - decimalValue(Tail(t)))
    ELSE Num(decimalValue(t))

\* JSON.stringify of a string: quoted, with " and \ escaped (the texts of
\* this model hold no control characters)
RECURSIVE jsonEscape(_)
jsonEscape(s) ==
    IF s = <<>> THEN <<>>
    ELSE (IF Head(s) \in { 34, 92 } THEN << 92, Head(s) >> ELSE << Head(s) >>)
         \o jsonEscape(Tail(s))

jsonString(s) == << 34 >> \o jsonEscape(s) \o << 34 >>

RECURSIVE jsonUnescape(_)
jsonUnescape(s) ==
    IF s = <<>> THEN <<>>
    ELSE IF Head(s) = 92 /\ Len(s) >= 2
         THEN << s[2] >> \o jsonUnescape(SubSeq(s, 3, Len(s)))
         ELSE << Head(s) >> \o jsonUnescape(Tail(s))

\* JSON.parse of the text of a string
jsonParseString(t) == jsonUnescape(SubSeq(t, 2, Len(t) - 1))

\* JSON.stringify(entries): each entry with the text of each of its fields
\* (the error messages, fixed literals, are kept whole)
JSONstringify(es) ==
    [ i \in 1..Len(es) |->
        [ id |-> jsonNumber(es[i].id),
          name |-> jsonString(es[i].name),
          locks |-> jsonNumber(es[i].locks),
          stocks |-> jsonNumber(es[i].stocks),
          barrels |-> jsonNumber(es[i].barrels),
          sales |-> jsonNumber(es[i].sales),
          commission |-> jsonNumber(es[i].commission),
          isValid |-> es[i].isValid,
          errors |-> es[i].errors ] ]

\* JSON.parse(saved)
JSONparse(doc) ==
    [ i \in 1..Len(doc) |->
        [ id |-> jsonParseNumber(doc[i].id),
          name |-> jsonParseString(doc[i].name),
          locks |-> jsonParseNumber(doc[i].locks),
          stocks |-> jsonParseNumber(doc[i].stocks),
          barrels |-> jsonParseNumber(doc[i].barrels),
          sales |-> jsonParseNumber(doc[i].sales),
          commission |-> jsonParseNumber(doc[i].commission),
          isValid |-> doc[i].isValid,
          errors |-> doc[i].errors ] ]

(***************************************************************************)
(* localStorage: the two keys of the page, each absent or holding a text.  *)
(***************************************************************************)
Absent == [present |-> FALSE]

Item(v) == [present |-> TRUE, value |-> v]

EmptyStorage == [commissionEntries |-> Absent, commissionEntryCount |-> Absent]

\* the useEffect on [entries, entryCount]: both keys are written
saveEffect(st, es, count) ==
    [st EXCEPT !.commissionEntries = Item(JSONstringify(es)),
               !.commissionEntryCount = Item(numberToString(count))]

\* the two removeItem calls of handleClearHistory
removeItems(st) ==
    [st EXCEPT !.commissionEntries = Absent, !.commissionEntryCount = Absent]

\* the initializer of the entries state
initialEntries(st) ==
    IF st.commissionEntries.present
    THEN JSONparse(st.commissionEntries.value)
    ELSE <<>>

\* the initializer of the entryCount state (a saved text is never empty)
initialEntryCount(st) ==
    IF st.commissionEntryCount.present /\ st.commissionEntryCount.value # <<>>
    THEN parseInt(st.commissionEntryCount.value)
    ELSE Num(0)

(***************************************************************************)
(* calculateCommission: the fetch client (app/lib/api.ts) and the axios    *)
(* client.  The backend and the network are outside the program: what they *)
(* do with a request is one of the transport outcomes below.               *)
(***************************************************************************)
NoValue == [kind |-> "none"]

\* {success: false, errors: [message]}
Failure(message) ==
    [kind |-> "object", success |-> FALSE, hasData |-> FALSE, data |-> NoValue,
     hasErrors |-> TRUE, errors |-> << message >>]

\* the data a backend computes for a request
BackendData(request) ==
    [name |-> request.name, locks |-> request.locks, stocks |-> request.stocks,
     barrels |-> request.barrels, sales |-> Num(100), commission |-> Num(10)]

\* the JSON bodies a backend may answer with
Bodies(request) ==
    { [kind |-> "null"],
      [kind |-> "object", success |-> TRUE, hasData |-> TRUE,
       data |-> BackendData(request), hasErrors |-> FALSE, errors |-> <<>>],
      [kind |-> "object", success |-> TRUE, hasData |-> FALSE, data |-> NoValue,
       hasErrors |-> FALSE, errors |-> <<>>],
      [kind |-> "object", success |-> FALSE, hasData |-> FALSE, data |-> NoValue,
       hasErrors |-> TRUE, errors |-> << "Locks must be between 1 and 70" >>],
      [kind |-> "object", success |-> FALSE, hasData |-> FALSE, data |-> NoValue,
       hasErrors |-> TRUE, errors |-> <<>>],
      [kind |-> "object", success |-> FALSE, hasData |-> FALSE, data |-> NoValue,
       hasErrors |-> FALSE, errors |-> <<>>] }

\* What becomes of a request: no response at all ("failed"), a response
\* with a non-2xx status ("status"), a 2xx response whose body is no JSON
\* ("invalidJSON"), a 2xx response with a JSON body ("ok"), or an exception
\* that is no Error and no AxiosError thrown inside the call ("exception").
Outcomes(request) ==
    { [kind |-> k, body |-> NoValue] :
        k \in { "failed", "status", "invalidJSON", "exception" } }
    \cup { [kind |-> "ok", body |-> b] : b \in Bodies(request) }

MSG_FETCH_FAILED == "Network Error: Failed to fetch"
MSG_FETCH_STATUS == "API Error: 500 Internal Server Error"
MSG_FETCH_JSON == "Network Error: Unexpected token < in JSON at position 0"
MSG_UNKNOWN == "Network Error: Unknown error"
MSG_AXIOS_NO_RESPONSE == "API Error: Unknown Network Error"
MSG_AXIOS_STATUS == "API Error: 500 Internal Server Error"

\* calculateCommission of app/lib/api.ts: the value its promise resolves to
\* without the test of response.ok: the body of the error page is parsed
calculateCommission_fetch_noOkTest(outcome) ==
    CASE outcome.kind = "failed" -> Failure(MSG_FETCH_FAILED)
      [] outcome.kind = "status" -> Failure(MSG_FETCH_JSON)
      [] outcome.kind = "invalidJSON" -> Failure(MSG_FETCH_JSON)
      [] outcome.kind = "exception" -> Failure(MSG_UNKNOWN)
      [] outcome.kind = "ok" -> outcome.body

calculateCommission_fetch(outcome) ==
    CASE outcome.kind = "failed" -> Failure(MSG_FETCH_FAILED)
      [] outcome.kind = "status" -> Failure(MSG_FETCH_STATUS)
      [] outcome.kind = "invalidJSON" -> Failure(MSG_FETCH_JSON)
      [] outcome.kind = "exception" -> Failure(MSG_UNKNOWN)
      [] outcome.kind = "ok" -> outcome.body

\* calculateCommission with axios: every AxiosError, with a response or
\* without one, is an "API Error"; a body that is no JSON is returned as the
\* string it is (axios parses silently)
calculateCommission_axios(outcome) ==
    CASE outcome.kind = "failed" -> Failure(MSG_AXIOS_NO_RESPONSE)
      [] outcome.kind = "status" -> Failure(MSG_AXIOS_STATUS)
      [] outcome.kind = "invalidJSON" -> [kind |-> "string"]
      [] outcome.kind = "exception" -> Failure(MSG_UNKNOWN)
      [] outcome.kind = "ok" -> outcome.body

calculateCommission(cl, outcome) ==
    IF cl = "fetch" THEN calculateCommission_fetch(outcome)
    ELSE calculateCommission_axios(outcome)

(***************************************************************************)
(* The page component, app/page.tsx.                                       *)
(***************************************************************************)
EmptyForm == [name |-> <<>>, locks |-> <<>>, stocks |-> <<>>, barrels |-> <<>>]

\* What the user may have typed when a button is clicked:
\*   " z", " 9", "9", "9"       valid, with whitespace around name and locks
\*   Thai letter, "9", "9", "9" a Thai name
\*   "A", "99", "9.", "9"       locks out of range; stocks no integer, though
\*                              parseInt gives 9
Forms ==
    { [name |-> << 32, 122 >>, locks |-> << 32, 57 >>, stocks |-> << 57 >>,
       barrels |-> << 57 >>],
      [name |-> << 3584 >>, locks |-> << 57 >>, stocks |-> << 57 >>,
       barrels |-> << 57 >>],
      [name |-> << 65 >>, locks |-> << 57, 57 >>, stocks |-> << 57, 46 >>,
       barrels |-> << 57 >>] }

\* 'Employee'
EMPLOYEE == << 69, 109, 112, 108, 111, 121, 101, 101 >>

MSG_UNKNOWN_SERVER == "Unknown error from server"
MSG_CAUGHT == "Error: Cannot read properties of null (reading 'success')"

\* const l = parseInt(locks) || 0, and likewise s and b
\* without "|| 0"
parsedQuantity_noDefault(text) == parseInt(text)

parsedQuantity(text) == OrZero(parseInt(text))

\* allErrors of handleCalculate: the name error, the three field errors,
\* then the range errors
allErrors(f) ==
    LET nameError == validateName(f.name)
        locksError == validateNumericField(f.locks, "Locks")
        stocksError == validateNumericField(f.stocks, "Stocks")
        barrelsError == validateNumericField(f.barrels, "Barrels")
        rangeErrors == validateInputRanges(parsedQuantity(f.locks),
                                           parsedQuantity(f.stocks),
                                           parsedQuantity(f.barrels))
    IN  (IF nameError # "" THEN << nameError >> ELSE <<>>)
        \o (IF locksError # "" THEN << locksError >> ELSE <<>>)
        \o (IF stocksError # "" THEN << stocksError >> ELSE <<>>)
        \o (IF barrelsError # "" THEN << barrelsError >> ELSE <<>>)
        \o rangeErrors

\* isClientValid that looks at the range errors alone
isClientValid_rangesOnly(f) ==
    validateInputRanges(parsedQuantity(f.locks), parsedQuantity(f.stocks),
                        parsedQuantity(f.barrels)) = <<>>

isClientValid(f) == Len(allErrors(f)) = 0

\* the entry of the three failure branches of handleCalculate
failedEntry(count, f, errors) ==
    [id |-> PlusOne(count),
     name |-> IF f.name = <<>> THEN EMPLOYEE ELSE f.name,
     locks |-> parsedQuantity(f.locks),
     stocks |-> parsedQuantity(f.stocks),
     barrels |-> parsedQuantity(f.barrels),
     sales |-> Num(0),
     commission |-> Num(0),
     isValid |-> FALSE,
     errors |-> errors]

\* the request of handleCalculate
requestOf(f) ==
    [name |-> trim(f.name), locks |-> parsedQuantity(f.locks),
     stocks |-> parsedQuantity(f.stocks), barrels |-> parsedQuantity(f.barrels)]

\* The entry handleCalculate builds once the await is over.  Reading
\* response.success of null throws, and so would a rejected promise: the
\* catch branch.  A string has no success: the else branch.
settledEntry(count, f, completion) ==
    LET response == completion.value
    IN  IF completion.type = "throw" \/ response.kind = "null"
        THEN failedEntry(count, f, << MSG_CAUGHT >>)
        ELSE IF response.kind = "object" /\ response.success /\ response.hasData
        THEN [id |-> PlusOne(count),
              name |-> response.data.name,
              locks |-> response.data.locks,
              stocks |-> response.data.stocks,
              barrels |-> response.data.barrels,
              sales |-> response.data.sales,
              commission |-> response.data.commission,
              isValid |-> TRUE,
              errors |-> <<>>]
        ELSE failedEntry(count, f,
                 IF response.kind = "object" /\ response.hasErrors
                 THEN response.errors
                 ELSE << MSG_UNKNOWN_SERVER >>)

\* disabled={isLoading} of the inputs and of the Calculate, Reset and Clear
\* buttons
\* without disabled={isLoading}
Enabled_always == TRUE

Enabled == ~isLoading

\* s without its i-th element
RemoveAt(s, i) == SubSeq(s, 1, i - 1) \o SubSeq(s, i + 1, Len(s))

Init ==
    /\ input = [kind |-> "text", text |-> <<>>]
    /\ call = "none"
    /\ ret = NormalCompletion("")
    /\ client \in { "fetch", "axios" }
    /\ form = EmptyForm
    /\ isLoading = FALSE
    /\ entries = initialEntries(EmptyStorage)
    /\ entryCount = initialEntryCount(EmptyStorage)
    /\ inflight = <<>>
    /\ storage = saveEffect(EmptyStorage, <<>>, Num(0))
    /\ removed = {}

\* the onChange handlers of the four inputs, between two clicks
onChange ==
    /\ Enabled
    /\ \E f \in Forms : form' = f
    /\ UNCHANGED <<validationVars, client, isLoading, entries, entryCount,
                   inflight, storage, removed>>

\* handleCalculate when the client-side validation fails
handleCalculate_rejected ==
    /\ Enabled
    /\ entryCount.val < MaxCount
    /\ ~isClientValid(form)
    /\ entries' = Append(entries, failedEntry(entryCount, form, allErrors(form)))
    /\ entryCount' = PlusOne(entryCount)
    /\ storage' = saveEffect(storage, entries', entryCount')
    /\ UNCHANGED <<validationVars, client, form, isLoading, inflight, removed>>

\* handleCalculate up to its await: the request leaves, and the invocation
\* waits with the entries, entryCount and fields of the render it ran in
handleCalculate_send ==
    /\ Enabled
    /\ entryCount.val < MaxCount
    /\ isClientValid(form)
    /\ isLoading' = TRUE
    /\ inflight' = Append(inflight,
                     [stage |-> "sent", entries |-> entries,
                      entryCount |-> entryCount, form |-> form,
                      request |-> requestOf(form),
                      outcome |-> NoValue, settled |-> NoValue])
    /\ UNCHANGED <<validationVars, client, form, entries, entryCount, storage,
                   removed>>

\* the promise of calculateCommission settles
calculateCommission_settles ==
    \E i \in 1..Len(inflight) :
        /\ inflight[i].stage = "sent"
        /\ \E o \in Outcomes(inflight[i].request) :
              inflight' = [inflight EXCEPT
                  ![i].stage = "resolved",
                  ![i].outcome = o,
                  ![i].settled = NormalCompletion(calculateCommission(client, o))]
        /\ UNCHANGED <<validationVars, client, form, isLoading, entries,
                       entryCount, storage, removed>>

\* handleCalculate after its await, finally included
handleCalculate_resume ==
    \E i \in 1..Len(inflight) :
        /\ inflight[i].stage = "resolved"
        /\ entries' = Append(inflight[i].entries,
                             settledEntry(inflight[i].entryCount,
                                          inflight[i].form, inflight[i].settled))
        /\ entryCount' = PlusOne(inflight[i].entryCount)
        /\ isLoading' = FALSE
        /\ inflight' = RemoveAt(inflight, i)
        /\ storage' = saveEffect(storage, entries', entryCount')
        /\ UNCHANGED <<validationVars, client, form, removed>>

handleReset ==
    /\ Enabled
    /\ form' = EmptyForm
    /\ UNCHANGED <<validationVars, client, isLoading, entries, entryCount,
                   inflight, storage, removed>>

\* the button is rendered while entries.length > 0
handleClearHistory ==
    /\ Enabled
    /\ Len(entries) > 0
    /\ entries' = <<>>
    /\ entryCount' = Num(0)
    /\ storage' = saveEffect(removeItems(storage), entries', entryCount')
    /\ removed' = {}
    /\ UNCHANGED <<validationVars, client, form, isLoading, inflight>>

\* the delete button of an entry: it is not disabled while loading
\* a delete that also takes one from entryCount
handleDeleteEntry_decrements ==
    \E i \in 1..Len(entries) :
        LET id == entries[i].id
            keep(entry) == entry.id # id
        IN  /\ entries' = SelectSeq(entries, keep)
            /\ entryCount' = Num(entryCount.val - 1)
            /\ storage' = saveEffect(storage, entries', entryCount')
            /\ removed' = removed \cup { id }
            /\ UNCHANGED <<validationVars, client, form, isLoading, inflight>>

handleDeleteEntry ==
    \E i \in 1..Len(entries) :
        LET id == entries[i].id
            keep(entry) == entry.id # id
        IN  /\ entries' = SelectSeq(entries, keep)
            /\ storage' = saveEffect(storage, entries', entryCount)
            /\ removed' = removed \cup { id }
            /\ UNCHANGED <<validationVars, client, form, isLoading, entryCount,
                           inflight>>

\* the page is loaded again: the states are initialised from localStorage,
\* the invocations of the old page are gone, the effect runs on mount
Reload ==
    /\ form' = EmptyForm
    /\ isLoading' = FALSE
    /\ entries' = initialEntries(storage)
    /\ entryCount' = initialEntryCount(storage)
    /\ inflight' = <<>>
    /\ storage' = saveEffect(storage, entries', entryCount')
    /\ UNCHANGED <<validationVars, client, removed>>

Next ==
    \/ onChange
    \/ handleCalculate_rejected
    \/ handleCalculate_send
    \/ calculateCommission_settles
    \/ handleCalculate_resume
    \/ handleReset
    \/ handleClearHistory
    \/ handleDeleteEntry
    \/ Reload

Spec == Init /\ [][Next]_vars

(***************************************************************************)
(* Vocabulary of the properties, stated without trim and without the       *)
(* regular-expression matcher.                                             *)
(***************************************************************************)
WhitespaceOnly(s) == \A i \in 1..Len(s) : IsWhiteSpace(s[i])

\* an optional single leading minus sign, then one or more decimal digits
IsIntegerLiteral(u) ==
    LET digits == IF u # <<>> /\ u[1] = 45 THEN Tail(u) ELSE u
    IN  /\ digits # <<>>
        /\ \A i \in 1..Len(digits) : digits[i] \in 48..57

\* t is u with whitespace (and nothing else) around it
TrimsToIntegerLiteral(t) ==
    \E i \in 0..Len(t), j \in 0..Len(t) :
        /\ i + j <= Len(t)
        /\ WhitespaceOnly(SubSeq(t, 1, i))
        /\ WhitespaceOnly(SubSeq(t, Len(t) - j + 1, Len(t)))
        /\ IsIntegerLiteral(SubSeq(t, i + 1, Len(t) - j))

\* a non-whitespace code unit on both sides of a whitespace code unit
HasInnerWhitespace(t) ==
    \E i \in 1..Len(t), j \in 1..Len(t), k \in 1..Len(t) :
        /\ i < j /\ j < k
        /\ ~IsWhiteSpace(t[i]) /\ IsWhiteSpace(t[j]) /\ ~IsWhiteSpace(t[k])

IsLetterOrThaiOrSpace(c) ==
    \/ c \in 65..90
    \/ c \in 97..122
    \/ c \in 3584..3711
    \/ IsWhiteSpace(c)

\* the number violates the inclusive range lo..hi (NaN violates every range)
ViolatesRange(x, lo, hi) == x.nan \/ x.val < lo \/ x.val > hi

RangeMessages == << MSG_LOCKS, MSG_STOCKS, MSG_BARRELS >>

\* C1: isInteger(t) is true exactly when t, with the whitespace around it
\* removed, is an optional minus sign followed by one or more digits; it is
\* false for the empty text, whitespace only, a lone minus, text with a
\* decimal point, text with a letter, and text with whitespace inside.
C1_isInteger_iff_literal ==
    call = "isInteger" =>
        LET t == input.text
            r == ret.value
        IN  /\ r <=> TrimsToIntegerLiteral(t)
            /\ WhitespaceOnly(t) => ~r
            /\ t = << 45 >> => ~r
            /\ (\E i \in 1..Len(t) : t[i] = 46) => ~r
            /\ (\E i \in 1..Len(t) : t[i] \in 65..90 \/ t[i] \in 97..122) => ~r
            /\ HasInnerWhitespace(t) => ~r

\* " -9" is an integer
C1_witness ==
    /\ call = "isInteger"
    /\ input.text = << 32, 45, 57 >>
    /\ ret.value = TRUE

\* C2: on integers, validateInputRanges returns the empty sequence exactly
\* when 1 <= locks <= 70, 1 <= stocks <= 80 and 1 <= barrels <= 90.
C2_empty_iff_in_range ==
    (call = "validateInputRanges"
        /\ ~input.locks.nan /\ ~input.stocks.nan /\ ~input.barrels.nan) =>
        LET l == input.locks.val
            s == input.stocks.val
            b == input.barrels.val
        IN  (ret.value = <<>>) <=>
                (1 <= l /\ l <= 70 /\ 1 <= s /\ s <= 80 /\ 1 <= b /\ b <= 90)

\* the upper endpoints are accepted
C2_witness ==
    /\ call = "validateInputRanges"
    /\ input.locks = Num(70) /\ input.stocks = Num(80) /\ input.barrels = Num(90)
    /\ ret.value = <<>>

\* C3: validateInputRanges returns one message for each field out of its
\* range and none for a field in range, in the order locks, stocks, barrels;
\* a field's message is present exactly when that field is out of range.
C3_one_message_per_violation ==
    call = "validateInputRanges" =>
        LET r == ret.value
            bad == << ViolatesRange(input.locks, 1, 70),
                      ViolatesRange(input.stocks, 1, 80),
                      ViolatesRange(input.barrels, 1, 90) >>
        IN  /\ Len(r) = Cardinality({ k \in 1..3 : bad[k] })
            /\ \A k \in 1..3 :
                   bad[k] <=> (\E i \in 1..Len(r) : r[i] = RangeMessages[k])
            /\ \A i \in 1..Len(r), j \in 1..Len(r) :
                   i < j => \E k \in 1..3, m \in 1..3 :
                              k < m /\ r[i] = RangeMessages[k]
                                    /\ r[j] = RangeMessages[m]

\* (0, 0, 0) gives the three messages
C3_witness ==
    /\ call = "validateInputRanges"
    /\ input.locks = Num(0) /\ input.stocks = Num(0) /\ input.barrels = Num(0)
    /\ Len(ret.value) = 3

\* C4: validateName returns "" for every name that is not whitespace only
\* and whose code units are all Latin letters, Thai-script characters or
\* whitespace.
C4_accepts_latin_and_thai ==
    (call = "validateName"
        /\ ~WhitespaceOnly(input.text)
        /\ \A i \in 1..Len(input.text) : IsLetterOrThaiOrSpace(input.text[i])) =>
        ret.value = ""

\* the same statement about the copy of validateName in app/lib/api.ts
C4_api_accepts_latin_and_thai ==
    (call = "api_validateName"
        /\ ~WhitespaceOnly(input.text)
        /\ \A i \in 1..Len(input.text) : IsLetterOrThaiOrSpace(input.text[i])) =>
        ret.value = ""

\* C5: validateName returns 'Name must be Thai or English letters only',
\* which is not the empty-name message, for every name that is not
\* whitespace only and holds a code unit that is no Latin letter, no
\* Thai-script character and no whitespace.
C5_rejects_other_characters ==
    (call = "validateName"
        /\ ~WhitespaceOnly(input.text)
        /\ \E i \in 1..Len(input.text) : ~IsLetterOrThaiOrSpace(input.text[i])) =>
        /\ ret.value = "Name must be Thai or English letters only"
        /\ ret.value # "Please enter Employee Name"

\* the same statement about the copy of validateName in app/lib/api.ts
C5_api_rejects_other_characters ==
    (call = "api_validateName"
        /\ ~WhitespaceOnly(input.text)
        /\ \E i \in 1..Len(input.text) : ~IsLetterOrThaiOrSpace(input.text[i])) =>
        /\ ret.value = "Name must be Thai or English letters only"
        /\ ret.value # "Please enter Employee Name"

\* C6: validateName (either copy) returns 'Please enter Employee Name' for
\* the empty text and for whitespace-only text: emptiness is decided before
\* the character set, so whitespace-only text is never accepted.
C6_empty_name_first ==
    (call \in { "validateName", "api_validateName" }
        /\ WhitespaceOnly(input.text)) =>
        ret.value = "Please enter Employee Name"

\* a name of spaces only is reported as empty
C6_witness ==
    /\ call = "validateName"
    /\ input.text = << 32, 32 >>
    /\ ret.value = "Please enter Employee Name"

\* C7: validateNumericField(value, label) returns 'Please enter <label>' for
\* whitespace-only value, otherwise 'Please enter with integer or whole
\* number' when isInteger(value) is false, otherwise ""; so it returns ""
\* exactly when isInteger(value), zero and negative integers included.
C7_numeric_field_cascade ==
    call = "validateNumericField" =>
        LET v == input.text
            r == ret.value
        IN  /\ r = ( IF WhitespaceOnly(v) THEN "Please enter " \o input.fieldName
                     ELSE IF ~isInteger(v)
                          THEN "Please enter with integer or whole number"
                          ELSE "" )
            /\ (r = "") <=> isInteger(v)
            /\ v \in { << 48 >>, << 45, 57 >>, << 45, 48 >> } => r = ""

\* "-9" passes, there being no range check
C7_witness ==
    /\ call = "validateNumericField"
    /\ input.text = << 45, 57 >>
    /\ input.fieldName = "Locks"
    /\ ret.value = ""

\* C8: a NaN argument of validateInputRanges is out of range: the result
\* holds that field's message whatever the other two arguments are.
C8_nan_out_of_range ==
    call = "validateInputRanges" =>
        /\ input.locks.nan => \E i \in 1..Len(ret.value) : ret.value[i] = MSG_LOCKS
        /\ input.stocks.nan => \E i \in 1..Len(ret.value) : ret.value[i] = MSG_STOCKS
        /\ input.barrels.nan => \E i \in 1..Len(ret.value) : ret.value[i] = MSG_BARRELS

\* NaN locks with in-range stocks and barrels gives the locks message alone
C8_witness ==
    /\ call = "validateInputRanges"
    /\ input.locks = NaN /\ input.stocks = Num(80) /\ input.barrels = Num(1)
    /\ ret.value = << MSG_LOCKS >>

\* C10: every call of a validator completes normally, and with a value of
\* its result type: a boolean, one of its messages or "", or a list of at
\* most three of the range messages.
C10_total ==
    call # "none" =>
        /\ ret.type = "normal"
        /\ call = "isInteger" => ret.value \in BOOLEAN
        /\ call = "validateName" =>
               ret.value \in { "", MSG_EMPTY_NAME, MSG_ENGLISH_ONLY }
        /\ call = "api_validateName" =>
               ret.value \in { "", MSG_EMPTY_NAME, MSG_THAI_OR_ENGLISH }
        /\ call = "validateNumericField" =>
               ret.value \in { "", "Please enter " \o input.fieldName,
                               MSG_NOT_INTEGER }
        /\ call = "validateInputRanges" =>
               /\ Len(ret.value) <= 3
               /\ \A i \in 1..Len(ret.value) :
                      ret.value[i] \in { MSG_LOCKS, MSG_STOCKS, MSG_BARRELS }

\* the validators return on empty text, on non-numeric text and on NaN
C10_witness ==
    /\ call = "validateInputRanges"
    /\ input.locks = NaN /\ input.stocks = NaN /\ input.barrels = NaN
    /\ ret.type = "normal"
    /\ Len(ret.value) = 3

(***************************************************************************)
(* Properties of the page and of calculateCommission.                      *)
(***************************************************************************)
HasThai(t) == \E i \in 1..Len(t) : t[i] \in 3584..3711

InRange(x, lo, hi) == ~x.nan /\ lo <= x.val /\ x.val <= hi

ApiErrorMessages ==
    { "API Error: 500 Internal Server Error", "API Error: Unknown Network Error" }

NetworkErrorMessages ==
    { "Network Error: Failed to fetch",
      "Network Error: Unexpected token < in JSON at position 0",
      "Network Error: Unknown error" }

\* the response is {success: false, errors: [m]} with m one of the messages
IsFailureWith(response, messages) ==
    /\ response.kind = "object"
    /\ ~response.success
    /\ response.hasErrors
    /\ Len(response.errors) = 1
    /\ response.errors[1] \in messages

Ids(es) == { es[i].id : i \in 1..Len(es) }

\* C11: a request is sent only when the name error, the three field errors
\* and the range errors are all absent; so every request carries a name
\* validateName accepts and locks in 1..70, stocks in 1..80, barrels in 1..90.
C11_request_only_when_valid ==
    \A i \in 1..Len(inflight) :
        LET f == inflight[i].form
            r == inflight[i].request
        IN  /\ validateName(f.name) = ""
            /\ validateNumericField(f.locks, "Locks") = ""
            /\ validateNumericField(f.stocks, "Stocks") = ""
            /\ validateNumericField(f.barrels, "Barrels") = ""
            /\ validateInputRanges(r.locks, r.stocks, r.barrels) = <<>>
            /\ validateName(r.name) = ""
            /\ InRange(r.locks, 1, 70)
            /\ InRange(r.stocks, 1, 80)
            /\ InRange(r.barrels, 1, 90)

\* the request of the form " z", " 9", "9", "9" is waiting
C11_witness ==
    /\ Len(inflight) = 1
    /\ inflight[1].form.name = << 32, 122 >>
    /\ inflight[1].request.name = << 122 >>
    /\ inflight[1].request.locks = Num(9)

\* C12: every name the Latin-only validateName accepts, the Latin-and-Thai
\* validateName accepts; both give the empty-name message on the same names;
\* they differ only on names with a Thai-script character, and in the
\* wording of the other message.
C12_thai_policy_more_permissive ==
    call = "validateName" =>
        LET t == input.text
            latin == ret.value
            thai == api_validateName(t)
        IN  /\ latin = "" => thai = ""
            /\ (latin = "Please enter Employee Name")
                   <=> (thai = "Please enter Employee Name")
            /\ ((latin = "") # (thai = "")) => HasThai(t)
            /\ ~HasThai(t) =>
                   /\ (latin = "") <=> (thai = "")
                   /\ (latin = "Name is not valid, please enter in english.")
                          <=> (thai = "Name must be Thai or English letters only")

\* "A" then a Thai letter: refused by the one, accepted by the other
C12_witness ==
    /\ call = "validateName"
    /\ input.text = << 65, 3584 >>
    /\ ret.value = "Name is not valid, please enter in english."
    /\ api_validateName(input.text) = ""

\* C13 as stated: calculateCommission never rejects; a non-OK status
\* resolves to an 'API Error: ...' failure, every thrown failure (no
\* response, a body that is no JSON, another exception) to a
\* 'Network Error: ...' failure, and only an OK response has its body
\* returned.
C13_as_stated ==
    \A i \in 1..Len(inflight) :
        inflight[i].stage = "resolved" =>
            LET o == inflight[i].outcome
                c == inflight[i].settled
            IN  /\ c.type = "normal"
                /\ o.kind = "status" => IsFailureWith(c.value, ApiErrorMessages)
                /\ o.kind \in { "failed", "invalidJSON", "exception" } =>
                       IsFailureWith(c.value, NetworkErrorMessages)
                /\ o.kind = "ok" => c.value = o.body

\* C13 as amended: calculateCommission never rejects and returns the body
\* of an OK response.  With fetch the rest is as stated.  With axios a
\* response with a non-2xx status and no response at all both resolve to an
\* 'API Error: ...' failure, only an exception that is no AxiosError
\* resolves to a 'Network Error: ...' failure, and the body of an OK
\* response that is no JSON is returned as a string.
C13_never_rejects ==
    \A i \in 1..Len(inflight) :
        inflight[i].stage = "resolved" =>
            LET o == inflight[i].outcome
                c == inflight[i].settled
            IN  /\ c.type = "normal"
                /\ o.kind = "ok" => c.value = o.body
                /\ o.kind = "status" => IsFailureWith(c.value, ApiErrorMessages)
                /\ o.kind = "exception" =>
                       IsFailureWith(c.value, NetworkErrorMessages)
                /\ (client = "fetch" /\ o.kind \in { "failed", "invalidJSON" }) =>
                       IsFailureWith(c.value, NetworkErrorMessages)
                /\ (client = "axios" /\ o.kind = "failed") =>
                       IsFailureWith(c.value, ApiErrorMessages)
                /\ (client = "axios" /\ o.kind = "invalidJSON") =>
                       c.value.kind = "string"

\* with axios, a request that got no response has resolved to an API Error
C13_witness ==
    /\ client = "axios"
    /\ Len(inflight) = 1
    /\ inflight[1].stage = "resolved"
    /\ inflight[1].outcome.kind = "failed"
    /\ inflight[1].settled.type = "normal"
    /\ inflight[1].settled.value.errors = << "API Error: Unknown Network Error" >>

\* C14: the entries of the history have pairwise distinct ids.
C14_distinct_ids ==
    \A i \in 1..Len(entries), j \in 1..Len(entries) :
        entries[i].id = entries[j].id => i = j

\* two entries, after an entry was deleted
C14_witness ==
    /\ Len(entries) = 2
    /\ removed # {}
    /\ entries[1].id # entries[2].id

\* C15: an entry removed with handleDeleteEntry stays removed: no entry of
\* the history has an id that was deleted (since the history was cleared).
C15_deleted_stays_deleted ==
    \A i \in 1..Len(entries) : entries[i].id \notin removed

\* C16: a handleCalculate invocation that completes (on a validation
\* failure, or after the backend's answer) appends one entry to the history
\* as it is, and adds one to entryCount.
C16_appends_one ==
    [][ (handleCalculate_rejected \/ handleCalculate_resume) =>
            /\ entryCount' = PlusOne(entryCount)
            /\ Len(entries') = Len(entries) + 1
            /\ SubSeq(entries', 1, Len(entries)) = entries ]_vars

\* C17: an entry with isValid has no errors; an entry without isValid has
\* sales 0, commission 0 and at least one error.
C17_entry_validity ==
    \A i \in 1..Len(entries) :
        LET e == entries[i]
        IN  /\ e.isValid => e.errors = <<>>
            /\ ~e.isValid =>
                   /\ e.sales = Num(0)
                   /\ e.commission = Num(0)
                   /\ e.errors # <<>>

\* the part of C17 on where a valid entry comes from: the entry a
\* completing handleCalculate appends has isValid exactly when the backend
\* answered success with data
C17_valid_from_success ==
    [][ /\ handleCalculate_rejected => ~entries'[Len(entries')].isValid
        /\ \A i \in 1..Len(inflight) :
              ( /\ inflight[i].stage = "resolved"
                /\ inflight' = RemoveAt(inflight, i)
                /\ handleCalculate_resume ) =>
              ( entries'[Len(entries')].isValid <=>
                    /\ inflight[i].settled.value.kind = "object"
                    /\ inflight[i].settled.value.success
                    /\ inflight[i].settled.value.hasData ) ]_vars

\* C18: isLoading is true exactly while a request of handleCalculate is
\* outstanding, at most one is; sending sets it, the end of the invocation
\* clears it, and a validation failure leaves it false.
C18_loading_iff_outstanding ==
    [][ /\ isLoading' <=> (Len(inflight') > 0)
        /\ Len(inflight') <= 1
        /\ handleCalculate_send => isLoading'
        /\ handleCalculate_resume => ~isLoading'
        /\ handleCalculate_rejected => ~isLoading' ]_vars

\* the one request is answered and isLoading is still true
C18_witness ==
    /\ isLoading
    /\ Len(inflight) = 1
    /\ inflight[1].stage = "resolved"

\* C19: localStorage always holds the current entries and entryCount: the
\* initializers of the two states, run on it, give back entries and
\* entryCount, so a reload changes neither.
C19_storage_round_trip ==
    /\ storage.commissionEntries.present
    /\ storage.commissionEntryCount.present
    /\ initialEntries(storage) = entries
    /\ initialEntryCount(storage) = entryCount

\* a history with a failed and a valid entry is stored
C19_witness ==
    /\ Len(entries) = 2
    /\ ~entries[1].isValid
    /\ entries[2].isValid
    /\ entryCount = Num(2)
    /\ initialEntries(storage) = entries

====
